---- MODULE Spec2Model ----
(***************************************************************************)
(* The RDMA scatter benchmark server (examples/11_rdma_scatter, server     *)
(* side).  The source file holds two programs: lines 1-156 (the plain      *)
(* RDMA benchmark server, version 1) and lines 157-408 (the server that    *)
(* fans the received payload out to four GPUs, version 2).  Both are       *)
(* modelled; `version' selects the program a behaviour runs.               *)
(*                                                                         *)
(* unsigned int values (min_size, max_size, curr_size, n_runs, sg.len)     *)
(* are 32 bits wide.  A value v is held as the pair <<v \div 2^16,         *)
(* v % 2^16>> so that the arithmetic modulo 2^32 is exact.                 *)
(***************************************************************************)
EXTENDS Integers, Sequences, FiniteSets, TLC

\* ------------------------------------------------------------------ bounds
\* Largest --runs value tried (and largest wrapped n_runs+10).
MaxRuns == 1
\* Fan-outs (version 2, write mode) are tried for max_size up to this many chunks.
MaxChunks == 5
\* Writes the peer may perform in one round (quota and beyond).
MaxPeerWrites == 2
\* Length up to which the log of run_bench invocations is kept.
MaxCalls == 4
\* Value at which the process-wide event counters stop counting.
MaxCount == 60

\* --------------------------------------------------------- program constants
NUM_GPUS == 4
ChunkSize == 4096
SizeofInt == 4
N_THROUGHPUT_REPS == 2
N_LATENCY_REPS == 1
RunsOffset == 10

\* --------------------------------------------------- 32-bit unsigned values
Half == 2^16

U32(n) == <<(n \div Half) % Half, n % Half>>

U32Max == <<Half - 1, Half - 1>>

U32Leq(a, b) == a[1] < b[1] \/ (a[1] = b[1] /\ a[2] <= b[2])

U32Lt(a, b) == a[1] < b[1] \/ (a[1] = b[1] /\ a[2] < b[2])

\* a * 2 modulo 2^32
U32Double(a) == <<(2 * a[1] + (2 * a[2]) \div Half) % Half, (2 * a[2]) % Half>>

\* a + k modulo 2^32, for a small k
U32Add(a, k) == <<(a[1] + (a[2] + k) \div Half) % Half, (a[2] + k) % Half>>

\* a / d (unsigned division), for a d that divides 2^16
U32Div(a, d) == a[1] * (Half \div d) + a[2] \div d

\* ------------------------------------------------------------ pure pieces
\* The loop test with its operands exchanged.
SweepContinuesReversed(curr, max) == U32Leq(max, curr)

\* main: while(curr_size <= max_size)
SweepContinues(curr, max) == U32Leq(curr, max)

\* main: curr_size *= 2
NextSize(curr) == U32Double(curr)

\* main: the transfer counts of the run_bench calls made for one size, in order
BenchCalls(v) ==
    IF v = 1 THEN <<N_THROUGHPUT_REPS, N_LATENCY_REPS>> ELSE <<N_LATENCY_REPS>>

\* main: the n_runs argument of run_bench (n_runs, or n_runs+10 modulo 2^32)
BenchRuns(v, runs) == IF v = 1 THEN runs ELSE U32Add(runs, RunsOffset)

\* run_bench: for (int i = 0; i < n_runs; i++), i converted to unsigned
RoundContinues(k, runs) == U32Lt(U32(k), runs)

\* A quota test that also lets a smaller count through.
QuotaReachedAtMost(count, quota) == count <= quota

\* A quota wait written with '<': it also ends on a count above the quota.
QuotaReachedAtLeast(count, quota) == count >= quota

\* run_bench: the quota wait ends when checkCompleted(LOCAL_WRITE) != transfers is false
QuotaReached(count, quota) == count = quota

\* run_bench: whether the program copies the payload to the GPUs at all
HasFanOut(v) == v = 2

\* run_bench: the bound of the copy loop, sg.len / 4096
NumChunks(len) == U32Div(len, ChunkSize)

\* Every chunk to device 0 (the commented-out copy of lines 252-253).
ChunkDeviceZero(k) == 0

\* run_bench: hipSetDevice(i%4), dest_buffers[i % 4]
ChunkDevice(k) == k % 4

\* run_bench: &mem[i * 4096] with int *mem, as a byte offset into the host buffer
ChunkSrc(k) == (k * ChunkSize) * SizeofInt

\* run_bench: hipMemcpyAsync(dest_buffers[i % 4], &mem[i * 4096], 4096, ...):
\* the copy of loop iteration k; dst is the index of the destination buffer,
\* dev the device made current before the call, src/len the host bytes read
\* and dstOff the offset written in the destination buffer.
ChunkCopy(k, enq) ==
    [chunk |-> k, dev |-> ChunkDevice(k), dst |-> ChunkDevice(k),
     src |-> ChunkSrc(k), dstOff |-> 0, len |-> ChunkSize, ok |-> enq]

\* main: destination_buffers[k] is vaddr_(k+1), allocated on GPU k
BufferDevice(k) == k

\* Only device 0 synchronised (the commented-out lines 289-290).
SyncDevicesFirst == {0}

\* run_bench: the devices the synchronisation loop visits
SyncDevices == 0 .. (NUM_GPUS - 1)

\* A synchronisation that does not wait for the outstanding copies.
SyncReturnsAtOnce(outstanding) == TRUE

\* hipDeviceSynchronize returns hipSuccess only when the device has no work left
SyncReturns(outstanding) == outstanding = 0

\* the position reached when a throw std::runtime_error leaves run_bench and main
Thrown == "failed"

\* The result of hipSetDevice not looked at, like that of hipMemcpyAsync.
CopySelectIgnored == FALSE

\* run_bench: if (hipSetDevice(i%4)) { throw ... }: a failed selection in the
\* copy loop is looked at and throws
CopySelectThrows == TRUE

\* run_bench: hipMemcpyAsync(...); the result of the call is not looked at
CopyEnqueueThrows == FALSE

\* A synchronisation loop that goes on after a failed call.
SyncFailureIgnored == FALSE

\* run_bench: if (hipSetDevice(i)) { throw ... } and
\* if (hipDeviceSynchronize() != hipSuccess) { throw ... } in the sync loop
SyncFailureThrows == TRUE

\* A loop that submits one operation more than the quota.
IssueContinuesOnceMore(k, quota) == k <= quota

\* run_bench: for (int i = 0; i < transfers; i++) around invoke
IssueContinues(k, quota) == k < quota

\* main: rdmaSg sg = { .len = curr_size }, the descriptor run_bench hands to
\* invoke(REMOTE_RDMA_WRITE, sg)
WriteDescriptor(size) == [len |-> size]

\* A round that does the write-mode work whatever the mode.
WritesBackAlways(op) == TRUE

\* run_bench: if (operation) { ... } else { }: only a write-mode round waits
\* for the quota, fans out and writes back
WritesBack(op) == op

\* run_bench: the failures that raise an exception between the quota wait
\* and the end of a round (the throw statements of the copy loop and of the
\* synchronisation loop, and an exception leaving invoke)
RaisedInRound == {"copy.select", "devsync.select", "devsync.sync", "issue"}

\* ------------------------------------------------------------------ state
VARIABLES
    version,    \* 1: lines 1-156, 2: lines 157-408
    operation,  \* --operation: TRUE = WRITE, FALSE = READ
    n_runs,     \* --runs
    min_size,   \* --min_size
    max_size,   \* --max_size
    pc,         \* position of the control thread
    curr_size,  \* main: curr_size (= sg.len inside run_bench)
    call,       \* index into BenchCalls of the current run_bench call
    transfers,  \* run_bench: transfers
    runs,       \* run_bench: n_runs
    i,          \* run_bench: round counter
    j,          \* counter of the inner loop being executed
    completed,  \* cThread: count of completed LOCAL_WRITE operations
    polled,     \* last value checkCompleted returned in this round (-1: none)
    pending,    \* per device: asynchronous copies enqueued and not yet finished
    copies,     \* hipMemcpyAsync calls of the current round, in order
    synced,     \* devices synchronised by the current round's fan-out
    writes,     \* REMOTE_RDMA_WRITE operations submitted in the current round
    sent,       \* the descriptors handed to those submissions, in order
    peer,       \* the client: "idle", "arrived" (in connSync) or "active"
    peerSent,   \* writes the client submitted since the last barrier
    inflight,   \* writes of the client whose completion is not yet counted
    calls,      \* log of run_bench invocations (first MaxCalls)
    nResets,    \* clearCompleted calls so far (counted up to MaxCount)
    nBarriers,  \* connSync calls that returned so far (counted up to MaxCount)
    nCopies,    \* hipMemcpyAsync calls so far (counted up to MaxCount)
    nWrites,    \* REMOTE_RDMA_WRITE submissions so far (counted up to MaxCount)
    finalSync,  \* the connSync after the sweep has returned
    faults,     \* the device calls that have failed so far
    status      \* "running", "ok" (return EXIT_SUCCESS) or "error" (uncaught throw)

vars == <<version, operation, n_runs, min_size, max_size, pc, curr_size, call,
          transfers, runs, i, j, completed, polled, pending, copies, synced,
          writes, sent, peer, peerSent, inflight, calls, nResets, nBarriers,
          nCopies, nWrites,
          finalSync, faults, status>>

inputs == <<version, operation, n_runs, min_size, max_size>>
benchVars == <<call, transfers, runs, i>>
peerVars == <<peer, peerSent, inflight>>
deviceVars == <<pending, copies, synced>>
counters == <<nResets, nBarriers, nCopies, nWrites>>

Count(n) == IF n < MaxCount THEN n + 1 ELSE n

\* ----------------------------------------------------------------- inputs
Pow30 == <<2^14, 0>>
Pow31 == <<2^15, 0>>

\* (min_size, max_size) pairs tried.
SizePairs ==
    { <<U32(64), U32(256)>>,        \* three sizes below one chunk
      <<U32(1024), U32(512)>>,      \* inverted
      <<U32(4096), U32(4096)>>,
      <<U32(8192), U32(8192)>>,
      <<U32(5120), U32(20480)>>,    \* 1, 2 and 5 chunks
      <<U32(10000), U32(10000)>>,   \* not a multiple of the chunk size
      <<U32(24576), U32(24576)>>,   \* 6 chunks
      <<U32(0), U32(0)>>,
      <<U32(0), U32(4096)>>,
      <<Pow30, U32Add(Pow31, Half - 1)>>,
      <<Pow30, U32Add(Pow30, 1)>>,
      <<Pow31, U32Max>>,
      <<<<3 * 2^14, 0>>, U32Max>> }

\* --runs values tried: 0..MaxRuns in version 1; in version 2, where run_bench
\* gets n_runs+10, the value 0 and the values for which n_runs+10 wraps to
\* 0..MaxRuns.
RunsInputs(v) ==
    IF v = 1 THEN { U32(k) : k \in 0 .. MaxRuns }
    ELSE {U32(0)} \cup { U32Add(U32Max, k - 9) : k \in 0 .. MaxRuns }

\* A write-mode fan-out is tried only up to MaxChunks chunks.
FanOutBounded(v, op, max) == (HasFanOut(v) /\ op) => NumChunks(max) <= MaxChunks

Init ==
    /\ version \in {1, 2}
    /\ operation \in BOOLEAN
    /\ n_runs \in RunsInputs(version)
    /\ \E p \in SizePairs : min_size = p[1] /\ max_size = p[2]
    /\ FanOutBounded(version, operation, max_size)
    /\ pc = "sweep"
    /\ curr_size = min_size
    /\ call = 0
    /\ transfers = 0
    /\ runs = U32(0)
    /\ i = 0
    /\ j = 0
    /\ completed = 0
    /\ polled = -1
    /\ pending = [d \in 0 .. (NUM_GPUS - 1) |-> 0]
    /\ copies = <<>>
    /\ synced = {}
    /\ writes = 0
    /\ sent = <<>>
    /\ peer = "idle"
    /\ peerSent = 0
    /\ inflight = 0
    /\ calls = <<>>
    /\ nResets = 0
    /\ nBarriers = 0
    /\ nCopies = 0
    /\ nWrites = 0
    /\ finalSync = FALSE
    /\ faults = {}
    /\ status = "running"

\* ---------------------------------------------------------------- main
\* A throw std::runtime_error that nothing catches: the process ends abnormally.
Throw ==
    /\ pc' = Thrown
    /\ status' = "error"

\* A device call failed at `site'.
Fault(site) == faults' = faults \cup {site}

\* while(curr_size <= max_size): enter the body, or leave the sweep.
SweepTest ==
    /\ pc = "sweep"
    /\ IF SweepContinues(curr_size, max_size)
       THEN /\ pc' = "call"
            /\ call' = 1
            /\ j' = j
       ELSE /\ pc' = IF HasFanOut(version) THEN "teardown" ELSE "final"
            /\ call' = call
            /\ j' = 0
    /\ UNCHANGED <<inputs, curr_size, transfers, runs, i, completed, polled,
                   deviceVars, writes, sent, peerVars, calls, counters, finalSync,
                   faults, status>>

\* run_bench(coyote_thread, sg, mem, ..., transfers, n_runs, operation): the
\* call and the part of run_bench before its loops (the fill of mem).
CallRunBench ==
    /\ pc = "call"
    /\ transfers' = BenchCalls(version)[call]
    /\ runs' = BenchRuns(version, n_runs)
    /\ calls' = IF Len(calls) < MaxCalls
                THEN Append(calls, [size |-> curr_size, call |-> call,
                                    transfers |-> BenchCalls(version)[call],
                                    runs |-> BenchRuns(version, n_runs)])
                ELSE calls
    /\ i' = 0
    /\ j' = 0
    /\ pc' = IF HasFanOut(version) THEN "create" ELSE "round"
    /\ UNCHANGED <<inputs, curr_size, call, completed, polled, deviceVars,
                   writes, sent, peerVars, counters, finalSync, faults, status>>

\* run_bench (version 2): for i in 0..NUM_GPUS-1, hipSetDevice(i),
\* hipStreamCreate, hipEventCreate; any of them failing throws.
CreateStream ==
    /\ pc = "create"
    /\ IF j < NUM_GPUS
       THEN \E ok \in BOOLEAN :
              IF ok THEN /\ j' = j + 1
                         /\ UNCHANGED <<pc, faults, status>>
                    ELSE /\ Fault("create")
                         /\ Throw
                         /\ j' = j
       ELSE /\ pc' = "round"
            /\ j' = 0
            /\ UNCHANGED <<faults, status>>
    /\ UNCHANGED <<inputs, curr_size, benchVars, completed, polled, deviceVars,
                   writes, sent, peerVars, calls, counters, finalSync>>

\* for (int i = 0; i < n_runs; i++): the round starts with clearCompleted().
RoundStart ==
    /\ pc = "round"
    /\ RoundContinues(i, runs)
    /\ completed' = 0
    /\ polled' = -1
    /\ copies' = <<>>
    /\ synced' = {}
    /\ writes' = 0
    /\ sent' = <<>>
    /\ nResets' = Count(nResets)
    /\ pc' = "sync"
    /\ UNCHANGED <<inputs, curr_size, benchVars, j, pending, peerVars, calls,
                   nBarriers, nCopies, nWrites, finalSync, faults, status>>

\* The round loop is over: run_bench returns to main (streams destroyed, the
\* payload check a no-op), which makes its next call for this size or
\* doubles curr_size.
RunBenchReturn ==
    /\ pc = "round"
    /\ ~RoundContinues(i, runs)
    /\ IF call < Len(BenchCalls(version))
       THEN /\ call' = call + 1
            /\ pc' = "call"
            /\ curr_size' = curr_size
       ELSE /\ call' = call
            /\ pc' = "sweep"
            /\ curr_size' = NextSize(curr_size)
    /\ UNCHANGED <<inputs, transfers, runs, i, j, completed, polled, deviceVars,
                   writes, sent, peerVars, calls, counters, finalSync, faults, status>>

\* connSync(IS_CLIENT) inside a round: returns once the client is in its
\* connSync too; both proceed.  In read mode the round is over.
ConnSync ==
    /\ pc = "sync"
    /\ peer = "arrived"
    /\ peer' = "active"
    /\ peerSent' = 0
    /\ nBarriers' = Count(nBarriers)
    /\ IF WritesBack(operation)
       THEN /\ pc' = "await"
            /\ i' = i
       ELSE /\ pc' = "round"
            /\ i' = i + 1
    /\ UNCHANGED <<inputs, curr_size, call, transfers, runs, j, completed,
                   polled, deviceVars, writes, sent, inflight, calls, nResets,
                   nCopies, nWrites, finalSync, faults, status>>

\* while (checkCompleted(LOCAL_WRITE) != transfers) {}: one evaluation.
Poll ==
    /\ pc = "await"
    /\ polled' = completed
    /\ IF QuotaReached(completed, transfers)
       THEN pc' = IF HasFanOut(version) THEN "copy" ELSE "issue"
       ELSE pc' = pc
    /\ j' = 0
    /\ UNCHANGED <<inputs, curr_size, benchVars, completed, deviceVars, writes, sent,
                   peerVars, calls, counters, finalSync, faults, status>>

\* for(int i = 0; i < sg.len / 4096; i++): hipSetDevice(i%4), which throws
\* when it fails (sel = FALSE), then hipMemcpyAsync, whose result is not
\* looked at (enq tells whether the copy was enqueued).
CopyChunk ==
    /\ pc = "copy"
    /\ IF j < NumChunks(curr_size)
       THEN \E sel \in BOOLEAN, enq \in BOOLEAN :
              IF ~sel /\ CopySelectThrows
              THEN /\ enq
                   /\ Fault("copy.select")
                   /\ Throw
                   /\ UNCHANGED <<copies, pending, nCopies, j>>
              ELSE /\ copies' = Append(copies, ChunkCopy(j, enq))
                   /\ pending' = IF enq
                                 THEN [pending EXCEPT ![ChunkDevice(j)] = @ + 1]
                                 ELSE pending
                   /\ nCopies' = Count(nCopies)
                   /\ IF ~sel THEN Fault("copy.select")
                      ELSE IF ~enq THEN Fault("copy.enqueue")
                      ELSE faults' = faults
                   /\ IF ~enq /\ CopyEnqueueThrows
                      THEN Throw /\ j' = j
                      ELSE j' = j + 1 /\ UNCHANGED <<pc, status>>
       ELSE /\ pc' = "devsync"
            /\ j' = 0
            /\ UNCHANGED <<copies, pending, nCopies, faults, status>>
    /\ UNCHANGED <<inputs, curr_size, benchVars, completed, polled, synced,
                   writes, sent, peerVars, calls, nResets, nBarriers, nWrites,
                   finalSync>>

\* for(int i = 0; i < NUM_GPUS; i++): hipSetDevice(i) and
\* hipDeviceSynchronize(), each throwing when it fails; the synchronisation
\* returns success only once the device has finished its copies.
SyncDevice ==
    /\ pc = "devsync"
    /\ IF j \in SyncDevices
       THEN \E out \in {"ok", "select", "sync"} :
              IF out = "ok"
              THEN /\ SyncReturns(pending[j])
                   /\ synced' = synced \cup {j}
                   /\ j' = j + 1
                   /\ UNCHANGED <<pc, faults, status>>
              ELSE /\ Fault(IF out = "select" THEN "devsync.select"
                                              ELSE "devsync.sync")
                   /\ IF SyncFailureThrows
                      THEN /\ Throw
                           /\ UNCHANGED <<synced, j>>
                      ELSE /\ synced' = synced
                           /\ j' = j + 1
                           /\ UNCHANGED <<pc, status>>
       ELSE /\ pc' = "issue"
            /\ j' = 0
            /\ UNCHANGED <<synced, faults, status>>
    /\ UNCHANGED <<inputs, curr_size, benchVars, completed, polled, pending,
                   copies, writes, sent, peerVars, calls, counters, finalSync>>

\* for (int i = 0; i < transfers; i++) invoke(REMOTE_RDMA_WRITE, sg); after
\* the last one the round is over.  An exception leaving invoke (ok = FALSE)
\* is caught nowhere.
Issue ==
    /\ pc = "issue"
    /\ IF IssueContinues(j, transfers)
       THEN \E ok \in BOOLEAN :
              IF ok
              THEN /\ writes' = writes + 1
                   /\ sent' = Append(sent, WriteDescriptor(curr_size))
                   /\ nWrites' = Count(nWrites)
                   /\ j' = j + 1
                   /\ UNCHANGED <<pc, i, faults, status>>
              ELSE /\ Fault("issue")
                   /\ Throw
                   /\ UNCHANGED <<writes, sent, nWrites, j, i>>
       ELSE /\ pc' = "round"
            /\ i' = i + 1
            /\ j' = 0
            /\ UNCHANGED <<writes, sent, nWrites, faults, status>>
    /\ UNCHANGED <<inputs, curr_size, call, transfers, runs, completed, polled,
                   deviceVars, peerVars, calls, nResets, nBarriers, nCopies,
                   finalSync>>

\* main (version 2) after the sweep: hipSetDevice(k), throwing when it fails,
\* and hipFree(vaddr_(k+1)), for k = 0..3.
Teardown ==
    /\ pc = "teardown"
    /\ IF j < NUM_GPUS
       THEN \E ok \in BOOLEAN :
              IF ok THEN /\ j' = j + 1
                         /\ UNCHANGED <<pc, faults, status>>
                    ELSE /\ Fault("teardown")
                         /\ Throw
                         /\ j' = j
       ELSE /\ pc' = "final"
            /\ j' = 0
            /\ UNCHANGED <<faults, status>>
    /\ UNCHANGED <<inputs, curr_size, benchVars, completed, polled, deviceVars,
                   writes, sent, peerVars, calls, counters, finalSync>>

\* coyote_thread.connSync(IS_CLIENT); return EXIT_SUCCESS;
FinalSync ==
    /\ pc = "final"
    /\ peer = "arrived"
    /\ peer' = "idle"
    /\ nBarriers' = Count(nBarriers)
    /\ finalSync' = TRUE
    /\ pc' = "exit"
    /\ status' = "ok"
    /\ UNCHANGED <<inputs, curr_size, benchVars, j, completed, polled,
                   deviceVars, writes, sent, peerSent, inflight, calls, nResets,
                   nCopies, nWrites, faults>>

\* ---------------------------------------------------- client and devices
\* The client enters connSync.
PeerArrive ==
    /\ peer \in {"idle", "active"}
    /\ pc \notin {"exit", Thrown}
    /\ peer' = "arrived"
    /\ UNCHANGED <<inputs, pc, curr_size, benchVars, j, completed, polled,
                   deviceVars, writes, sent, peerSent, inflight, calls, counters,
                   finalSync, faults, status>>

\* A write of the client lands in the host buffer: one more LOCAL_WRITE
\* completion.
PeerWrite ==
    /\ peer = "active"
    /\ pc \notin {"exit", Thrown}
    /\ peerSent < MaxPeerWrites
    /\ peerSent' = peerSent + 1
    /\ completed' = completed + 1
    /\ UNCHANGED <<inputs, pc, curr_size, benchVars, j, polled, deviceVars,
                   writes, sent, peer, inflight, calls, counters, finalSync, faults,
                   status>>

\* A device finishes its oldest outstanding copy.
DeviceComplete ==
    /\ pc \notin {"exit", Thrown}
    /\ \E d \in 0 .. (NUM_GPUS - 1) :
         /\ pending[d] > 0
         /\ pending' = [pending EXCEPT ![d] = @ - 1]
    /\ UNCHANGED <<inputs, pc, curr_size, benchVars, j, completed, polled,
                   copies, synced, writes, sent, peerVars, calls, counters, finalSync,
                   faults, status>>

\* The steps of the control thread.
Server ==
    \/ SweepTest
    \/ CallRunBench
    \/ CreateStream
    \/ RoundStart
    \/ RunBenchReturn
    \/ ConnSync
    \/ Poll
    \/ CopyChunk
    \/ SyncDevice
    \/ Issue
    \/ Teardown
    \/ FinalSync

Next ==
    \/ Server
    \/ PeerArrive
    \/ PeerWrite
    \/ DeviceComplete

Spec == Init /\ [][Next]_vars

\* The control thread keeps running: a step of it that stays possible is
\* eventually taken.  Nothing is assumed of the client or of the devices.
SpecFair == Init /\ [][Next]_vars /\ WF_vars(Server)

\* ------------------------------------------------------ normal operation
\* The client and the devices as the benchmark expects them: after a barrier
\* the client submits exactly `transfers' writes, every one of them lands and
\* is counted, the client enters its next connSync only once it has received
\* the write-backs of the round, every device call succeeds and every copy
\* finishes.

\* The control thread has submitted every write-back of the round the
\* client is in.
RoundWrittenBack ==
    /\ pc \notin {"await", "copy", "devsync"}
    /\ pc = "issue" => writes = transfers

\* The client enters connSync: the first time, or after its round (in write
\* mode: its writes submitted and the write-backs received).
PeerArriveNormal ==
    /\ \/ peer = "idle"
       \/ /\ peer = "active"
          /\ operation => RoundWrittenBack
    /\ PeerArrive

\* The client submits one of the writes of its round, the round the control
\* thread is in.
PeerSubmit ==
    /\ peer = "active"
    /\ operation
    /\ pc \in {"await", "copy", "devsync", "issue"}
    /\ peerSent < transfers
    /\ peerSent' = peerSent + 1
    /\ inflight' = inflight + 1
    /\ UNCHANGED <<inputs, pc, curr_size, benchVars, j, completed, polled,
                   deviceVars, writes, sent, peer, calls, counters, finalSync,
                   faults, status>>

\* A submitted write lands in the host buffer: one more LOCAL_WRITE
\* completion.
WriteLand ==
    /\ inflight > 0
    /\ inflight' = inflight - 1
    /\ completed' = completed + 1
    /\ UNCHANGED <<inputs, pc, curr_size, benchVars, j, polled, deviceVars,
                   writes, sent, peer, peerSent, calls, counters, finalSync,
                   faults, status>>

\* A step of the control thread in which no call fails.
ServerNormal == Server /\ faults' = faults

NextNormal ==
    \/ ServerNormal
    \/ PeerArriveNormal
    \/ PeerSubmit
    \/ WriteLand
    \/ DeviceComplete

\* Every party keeps running.
SpecNormal ==
    /\ Init
    /\ [][NextNormal]_vars
    /\ WF_vars(ServerNormal)
    /\ WF_vars(PeerArriveNormal)
    /\ WF_vars(PeerSubmit)
    /\ WF_vars(WriteLand)
    /\ WF_vars(DeviceComplete)

\* ------------------------------------------------------------ properties
\* The value of a 32-bit quantity below 2^31.
Val(a) == a[1] * Half + a[2]

RECURSIVE SumLen(_)
SumLen(cs) == IF cs = <<>> THEN 0 ELSE Head(cs).len + SumLen(Tail(cs))

Devices == 0 .. (NUM_GPUS - 1)

\* C1: in a write-mode round no chunk copy is made (the fan-out is not
\* entered and nothing is read from the host buffer) unless the last
\* LOCAL_WRITE completion count the round's quota wait read equals the quota.
C1_NoCopyBeforeQuota ==
    (pc \in {"copy", "devsync"} \/ copies # <<>>) =>
        (operation /\ polled = transfers)

C1_Witness ==
    /\ pc = "copy"
    /\ i >= 1
    /\ Len(copies) >= 2
    /\ polled = transfers

\* C2: in a write-mode round, whenever a remote write has been or is about to
\* be submitted, every copy the round's fan-out enqueued has finished and
\* every device a copy went to was synchronised after the copy loop.
C2_NoWriteBeforeCopiesDone ==
    (HasFanOut(version) /\ (pc = "issue" \/ writes > 0)) =>
        /\ synced = SyncDevices
        /\ \A k \in 1 .. Len(copies) :
             /\ pending[copies[k].dev] = 0
             /\ copies[k].dev \in synced

C2_Witness ==
    /\ pc = "issue"
    /\ writes = transfers
    /\ Len(copies) >= NUM_GPUS + 1
    /\ \A k \in 1 .. Len(copies) : copies[k].ok

\* C3: when the copy loop of a fan-out over L = sg.len bytes is over, the
\* number of copies made is ceil(L / 4096) and their lengths add up to L.
C3_ChunkCountAndBytes ==
    (pc = "devsync" /\ faults = {}) =>
        /\ Len(copies) = (Val(curr_size) + ChunkSize - 1) \div ChunkSize
        /\ SumLen(copies) = Val(curr_size)

\* C4: when the fan-out has returned, every byte b of the host region
\* [0, L) lies in the source range of the copy of chunk b div 4096, and that
\* copy went to device target (b div 4096) mod 4.
C4_EveryByteCopied ==
    (HasFanOut(version) /\ pc = "issue" /\ faults = {}) =>
        \A b \in 0 .. (Val(curr_size) - 1) :
            \E k \in 1 .. Len(copies) :
                /\ copies[k].chunk = b \div ChunkSize
                /\ copies[k].src <= b
                /\ b < copies[k].src + copies[k].len
                /\ copies[k].dst = (b \div ChunkSize) % NUM_GPUS

\* C5: the k-th copy of every fan-out is the copy of chunk k-1 and goes to
\* device (k-1) mod 4, into the buffer allocated on that device, whatever the
\* round and the invocation; a device whose index is not below the number of
\* chunks copied so far has received nothing.
C5_RoundRobin ==
    /\ \A k \in 1 .. Len(copies) :
         /\ copies[k].chunk = k - 1
         /\ copies[k].dev = (k - 1) % NUM_GPUS
         /\ copies[k].dst = (k - 1) % NUM_GPUS
         /\ BufferDevice(copies[k].dst) = copies[k].dev
    /\ \A d \in Devices :
         d >= Len(copies) =>
            /\ pending[d] = 0
            /\ \A k \in 1 .. Len(copies) : copies[k].dev # d

C5_Witness ==
    /\ i >= 1
    /\ Len(calls) >= 2
    /\ Len(copies) = NUM_GPUS + 1
    /\ copies[NUM_GPUS + 1].dev = 0
    /\ pending[0] = 2

\* The sizes the sweep has visited: the first run_bench call of each
\* iteration of the sweep loop.
Visited == SelectSeq(calls, LAMBDA c : c.call = 1)

\* C6: with min_size <= max_size the sizes visited are min_size, 2*min_size,
\* 4*min_size, ...: the first is min_size, each next one is twice the one
\* before it (as numbers, so strictly larger), none exceeds max_size, and
\* when the sweep is over twice the last one exceeds max_size.
C6_DoublingSequence ==
    U32Leq(min_size, max_size) =>
        /\ \A k \in 1 .. Len(Visited) :
             /\ U32Leq(Visited[k].size, max_size)
             /\ k = 1 => Visited[k].size = min_size
             /\ k > 1 => /\ Visited[k - 1].size[1] < Half \div 2
                         /\ Visited[k].size = U32Double(Visited[k - 1].size)
                         /\ U32Lt(Visited[k - 1].size, Visited[k].size)
        /\ (pc \in {"teardown", "final", "exit"} /\ Len(calls) < MaxCalls) =>
             /\ Visited # <<>>
             /\ \/ Visited[Len(Visited)].size[1] >= Half \div 2
                \/ U32Lt(max_size, U32Double(Visited[Len(Visited)].size))

\* C7: whenever the sweep is between two sizes, the run_bench calls made so
\* far come in pairs for the same size, the first with N_THROUGHPUT_REPS
\* and the second with N_LATENCY_REPS transfers.
C7_TwoCallsPerSize ==
    (pc = "sweep" /\ Len(calls) < MaxCalls) =>
        /\ Len(calls) % 2 = 0
        /\ \A k \in 1 .. Len(calls) :
             IF k % 2 = 1
             THEN calls[k].transfers = N_THROUGHPUT_REPS
             ELSE /\ calls[k].transfers = N_LATENCY_REPS
                  /\ calls[k].size = calls[k - 1].size

\* The positions inside run_bench.
BenchPcs == {"create", "round", "sync", "await", "copy", "devsync", "issue"}

\* C8: whatever min_size and max_size are, unless some run_bench invocation
\* never returns the sweep loop is eventually left (the final
\* synchronisation is reached, or a device call has thrown).
C8_SweepTerminates ==
    \/ <>(pc \in {"teardown", "final", "exit", Thrown})
    \/ <>[](pc \in BenchPcs)

\* What an empty sweep leaves behind: no run_bench call, no reset, no
\* barrier but the final one, no copy, no remote write.
NoRound ==
    /\ calls = <<>>
    /\ nResets = 0
    /\ nCopies = 0
    /\ nWrites = 0
    /\ nBarriers = IF finalSync THEN 1 ELSE 0
    /\ pc \in {"sweep", "teardown", "final", "exit", Thrown}

C10_SelectFailureAborts ==
    ("copy.select" \in faults) =>
        /\ pc = Thrown
        /\ status = "error"
        /\ writes = 0

C10_Witness ==
    /\ "copy.select" \in faults
    /\ pc = Thrown
    /\ j = 2
    /\ Len(copies) = 2
    /\ pending[0] = 1
    /\ pending[1] = 1
    /\ nWrites > 0

\* C11: once a chunk copy could not be enqueued in a round's fan-out, the
\* failure is propagated (the control thread has thrown), the fan-out is not
\* reported complete and no remote write of that round is submitted.
C11_EnqueueFailureAborts ==
    ("copy.enqueue" \in faults) =>
        /\ pc = Thrown
        /\ status = "error"
        /\ pc # "issue"
        /\ writes = 0

\* C12: once a failure has been raised in the fan-out or in the issuing of a
\* round the control thread has thrown, the final synchronisation has not
\* been made, and from then on nothing happens: the failed call is not
\* repeated and no round, size, barrier, copy, remote write or final
\* synchronisation follows.
C12_RaisedFailureAbortsSweep ==
    /\ [](faults \cap RaisedInRound # {} =>
            (pc = Thrown /\ status = "error" /\ ~finalSync))
    /\ [][pc = Thrown =>
            UNCHANGED <<pc, status, curr_size, benchVars, j, completed, polled,
                        deviceVars, writes, sent, calls, counters, finalSync,
                        faults>>]_vars

C12_Witness ==
    /\ pc = Thrown
    /\ faults = {"devsync.sync"}
    /\ Len(copies) = 1
    /\ U32Lt(curr_size, max_size)
    /\ RoundContinues(i + 1, runs)
    /\ nWrites = 0
    /\ ~finalSync

\* C13: in write mode a round submits nothing before its issuing phase, in
\* that phase at most the quota, and a round that is over has submitted
\* exactly `transfers' REMOTE_RDMA_WRITE operations, each with a descriptor
\* whose length is the current transfer size.
C13_QuotaWritesPerRound ==
    operation =>
        /\ pc \in {"sync", "await", "copy", "devsync"} =>
              (writes = 0 /\ sent = <<>>)
        /\ pc = "issue" =>
              /\ writes = j
              /\ writes <= transfers
        /\ (pc = "round" /\ i > 0) => writes = transfers
        /\ (pc = "issue" \/ (pc = "round" /\ i > 0)) =>
              /\ Len(sent) = writes
              /\ \A k \in 1 .. Len(sent) : sent[k].len = curr_size

C13_Witness ==
    /\ operation
    /\ pc = "round"
    /\ i = 1
    /\ transfers = N_THROUGHPUT_REPS
    /\ writes = N_THROUGHPUT_REPS
    /\ sent = <<[len |-> U32(8192)], [len |-> U32(8192)]>>

\* C14: in read mode the control thread is never in the quota wait, the
\* fan-out or the issuing phase: it never reads the completion count, never
\* makes a device call inside a round (no selection, copy or synchronisation,
\* hence no failure of one), and never submits a remote write.
C14_ReadModePassive ==
    ~operation =>
        /\ pc \notin {"await", "copy", "devsync", "issue"}
        /\ polled = -1
        /\ copies = <<>>
        /\ nCopies = 0
        /\ \A d \in Devices : pending[d] = 0
        /\ synced = {}
        /\ writes = 0
        /\ sent = <<>>
        /\ nWrites = 0
        /\ faults \cap (RaisedInRound \cup {"copy.enqueue"}) = {}

C14_Witness ==
    /\ ~operation
    /\ HasFanOut(version)
    /\ pc = "round"
    /\ i = 1
    /\ nResets = 1
    /\ nBarriers = 1
    /\ completed > 0

\* C15: in normal operation every quota wait ends with the quota reached,
\* every write-mode round that has passed its barrier ends with its remote
\* writes submitted, and the final synchronisation is eventually made.
C15_NormalOperationProgress ==
    /\ (pc = "await") ~> (pc = "await" /\ completed = transfers)
    /\ (pc = "await") ~> (pc = "round" /\ writes = transfers)
    /\ <>finalSync

\* The positions inside a round, and the order in which a write-mode round
\* may move between them.
RoundPcs == {"sync", "await", "copy", "devsync", "issue"}

RoundOrder ==
    { <<"round", "sync">>, <<"sync", "await">>, <<"await", "copy">>,
      <<"await", "issue">>, <<"copy", "devsync">>, <<"devsync", "issue">>,
      <<"issue", "round">> }

\* C16: in a write-mode round the quota wait, the fan-out and the issuing
\* follow one another and never overlap: while waiting nothing has been
\* copied or written; during the fan-out the quota has been read and nothing
\* written; the issuing starts only when every copy has been enqueued and
\* every device synchronised, with no copy outstanding.  The round is left
\* only with all its writes submitted, and only then can the next round
\* start with its reset and barrier.
C16_PhasesInOrder ==
    /\ [](operation =>
            /\ pc = "await" => (copies = <<>> /\ synced = {} /\ writes = 0)
            /\ pc \in {"copy", "devsync"} =>
                  (polled = transfers /\ writes = 0)
            /\ pc = "issue" =>
                  /\ polled = transfers
                  /\ HasFanOut(version) =>
                        /\ Len(copies) = NumChunks(curr_size)
                        /\ synced = Devices
                        /\ \A d \in Devices : pending[d] = 0)
    /\ [][(operation /\ pc' # pc /\ (pc \in RoundPcs \/ pc' \in RoundPcs)) =>
            (pc' = Thrown \/ <<pc, pc'>> \in RoundOrder)]_vars
    /\ [][(operation /\ pc = "issue" /\ pc' = "round") =>
            (writes = transfers /\ i' = i + 1)]_vars
    /\ [][(operation /\ pc = "round" /\ pc' = "sync" /\ i > 0) =>
            writes = transfers]_vars

C16_Witness ==
    /\ operation
    /\ HasFanOut(version)
    /\ pc = "sync"
    /\ i = 1
    /\ nWrites = transfers
    /\ nCopies = 2
    /\ nBarriers = 1
    /\ peer = "arrived"

\* C17: a round that is running is one of the first --runs rounds of its
\* invocation, and an invocation returns after exactly --runs rounds; every
\* round makes one reset followed by one barrier, so the barriers made are as
\* many as the resets (less the round still waiting at its barrier), plus
\* one once the final synchronisation is made.
C17_RunsRoundsAndBarriers ==
    /\ pc \in RoundPcs => U32Lt(U32(i), n_runs)
    /\ (pc = "round" /\ ~RoundContinues(i, runs)) => U32(i) = n_runs
    /\ nResets < MaxCount =>
          nBarriers = nResets - (IF pc = "sync" THEN 1 ELSE 0)
                              + (IF finalSync THEN 1 ELSE 0)

\* C18: the quota wait can only be left by reading a completion count equal
\* to the quota: no step taken from it raises an error or ends it otherwise,
\* and as long as the count differs from the quota the control thread stays
\* in the wait, with no copy, no remote write, no reset, no barrier and no
\* final synchronisation made.
C18_NoWayOutOfQuotaWait ==
    /\ [](pc = "await" =>
            /\ status = "running"
            /\ copies = <<>>
            /\ writes = 0
            /\ ~finalSync)
    /\ [][pc = "await" =>
            /\ pc' \in {"await", "copy", "issue"}
            /\ pc' # "await" => (completed = transfers /\ polled' = transfers)
            /\ completed # transfers =>
                  /\ pc' = "await"
                  /\ UNCHANGED <<curr_size, benchVars, copies, synced, writes,
                                 sent, counters, finalSync, faults, status>>]_vars

C18_Witness ==
    /\ pc = "await"
    /\ transfers = N_THROUGHPUT_REPS
    /\ completed = 1
    /\ polled = 1
    /\ peer = "arrived"

\* C19: every copy of a round's fan-out reads host bytes inside [0, L), L
\* the current transfer size (hence inside the max_size bytes of the host
\* buffer), and writes inside the max_size bytes of its destination buffer.
C19_CopiesInBounds ==
    pc \in {"copy", "devsync", "issue"} =>
        \A k \in 1 .. Len(copies) :
            /\ copies[k].src >= 0
            /\ copies[k].src + copies[k].len <= Val(curr_size)
            /\ copies[k].src + copies[k].len <= Val(max_size)
            /\ copies[k].dstOff >= 0
            /\ copies[k].dstOff + copies[k].len <= Val(max_size)

\* C20: with the client of normal operation, in write mode no write of the
\* client is uncounted when the control thread is outside the quota wait, so
\* a reset discards no completion that is still to come; between a round's
\* reset and its barrier the count is 0 (nothing of the round before lands
\* late, nothing of the new round is counted early); and in the quota wait
\* the count is exactly the number of writes the client submitted since the
\* barrier that have landed, which is what a poll reads.
C20_ResetKeepsRoundCompletions ==
    operation =>
        /\ pc # "await" => inflight = 0
        /\ pc = "sync" => completed = 0
        /\ pc = "await" =>
              /\ completed = peerSent - inflight
              /\ completed <= transfers
              /\ polled \in {-1} \cup (0 .. completed)
        /\ pc \in {"copy", "devsync", "issue"} =>
              (polled = transfers /\ completed = transfers)

C20_Witness ==
    /\ operation
    /\ pc = "await"
    /\ nResets = 3
    /\ transfers = N_THROUGHPUT_REPS
    /\ peerSent = 2
    /\ inflight = 1
    /\ completed = 1
    /\ polled = 0

\* C21: the quota wait is left only by a poll that reads a count equal to
\* the quota, so in the fan-out and in the issuing the count last read is
\* the quota; and once the count is above the quota in the wait (it went
\* past the quota between two polls) it stays above it, the control thread
\* stays in the wait and no remote write is submitted.
C21_ExactQuotaOnly ==
    /\ [](pc \in {"copy", "devsync", "issue"} => polled = transfers)
    /\ [][(pc = "await" /\ pc' # "await") =>
            (completed = transfers /\ polled' = transfers)]_vars
    /\ [][(pc = "await" /\ completed > transfers) =>
            /\ pc' = "await"
            /\ completed' >= completed
            /\ polled' # transfers
            /\ writes' = 0
            /\ UNCHANGED <<copies, nCopies, nWrites, i>>]_vars

C21_Witness ==
    /\ operation
    /\ HasFanOut(version)
    /\ pc = "await"
    /\ transfers = N_LATENCY_REPS
    /\ polled = 0
    /\ completed = 2
    /\ writes = 0

====
